---- MODULE Spec2Model ----
(***************************************************************************)
(* The seismic dashboard script (dashboard.py): two CSV sources are read,  *)
(* their timestamps normalised to UTC instants, each source is cut to its  *)
(* time window, the two are concatenated and deduplicated on 'time', every *)
(* event is given a region by a bounding-box search, and the chart data    *)
(* are derived.  The script is straight-line code: pc names the statement  *)
(* about to run, error the exception that ended the run ("none" while it   *)
(* runs), and pc stays at the statement that raised.                       *)
(*                                                                         *)
(* Units: latitude and longitude are in tenths of a degree (41 -> 410,     *)
(* 45.5 -> 455), magnitudes in tenths, depths in km, instants in seconds   *)
(* since 1970-01-01T00:00:00Z.  Region names are written without macrons.  *)
(***************************************************************************)
EXTENDS Integers, Sequences, FiniteSets, TLC

VARIABLES
    pc,                       \* the statement about to run
    error,                    \* "none", or the exception that ended the run
    data_japan_2001_2018,     \* source A (line 13), 'time' parsed by line 17
    data_japan_2000_2023,     \* source B (line 14), 'time' parsed by line 18
    data_japan_old_filtered,  \* line 21
    data_japan_new_filtered,  \* line 22
    combined_data,            \* line 23
    cleaned_combined_data,    \* line 26, then the columns region, year, month
    magnitude_values,         \* line 68
    min_mag,                  \* line 69
    max_mag,                  \* line 70
    lookup_values,            \* line 71, rebound by line 123
    monthly_event_counts,     \* line 101
    monthly_avg_magnitude,    \* line 111
    region_event_counts,      \* line 150
    event_counts_per_year,    \* line 159
    xValues6,                 \* line 160
    year_region_event_counts, \* line 183
    x_values7,                \* line 186
    row,                      \* the argument of a direct call of assign_region
    region                    \* what that call returned

vars == <<pc, error, data_japan_2001_2018, data_japan_2000_2023,
          data_japan_old_filtered, data_japan_new_filtered, combined_data,
          cleaned_combined_data, magnitude_values, min_mag, max_mag,
          lookup_values, monthly_event_counts, monthly_avg_magnitude,
          region_event_counts, event_counts_per_year, xValues6,
          year_region_event_counts, x_values7, row, region>>

frames == <<data_japan_2001_2018, data_japan_2000_2023, data_japan_old_filtered,
            data_japan_new_filtered, combined_data>>

chart1_vars == <<magnitude_values, min_mag, max_mag>>

aggregates == <<monthly_event_counts, monthly_avg_magnitude, region_event_counts,
                event_counts_per_year, xValues6, year_region_event_counts,
                x_values7>>

call_vars == <<row, region>>

----------------------------------------------------------------------------
(* Bounds of the model *)

\* rows of the two sources together, when both carry every required column
MaxRows == 3

\* rows of the two sources together, when a source lacks a required column
MaxRowsMissing == 2

\* how far (tenths of a degree) around the region table's hull points are drawn
Margin == 5

----------------------------------------------------------------------------
(* Values *)

\* a float cell that holds no number: pandas fills a column one source lacks
NaN == -(10^6)

IsNaN(v) == v = NaN

\* a name not yet bound to a frame
NoFrame == [columns |-> {}, rows |-> <<>>]

RequiredColumns == {"time", "latitude", "longitude", "depth", "mag"}

\* range(len(s)) as TLA+ positions
Positions(s) == 1..Len(s)

RECURSIVE Sum(_, _)
Sum(f, S) ==
    IF S = {} THEN 0
    ELSE LET x == CHOOSE y \in S : TRUE IN f[x] + Sum(f, S \ {x})

----------------------------------------------------------------------------
(* pd.to_datetime(..., utc=True) and the .dt accessors *)

\* days from 1970-01-01 to the civil date y-m-d (proleptic Gregorian)
DaysFromCivil(y, m, d) ==
    LET yy  == IF m <= 2 THEN y - 1 ELSE y
        era == yy \div 400
        yoe == yy - era * 400
        mp  == IF m > 2 THEN m - 3 ELSE m + 9
        doy == (153 * mp + 2) \div 5 + d - 1
        doe == yoe * 365 + yoe \div 4 - yoe \div 100 + doy
    IN  era * 146097 + doe - 719468

\* a timestamp string, as its fields, to the UTC instant it names
to_datetime(s) ==
    DaysFromCivil(s.year, s.month, s.day) * 86400
        + s.hour * 3600 + s.minute * 60 + s.second - s.utcoffset * 3600

\* the civil date of a UTC instant: <<year, month>>
CivilFromInstant(t) ==
    LET z   == t \div 86400 + 719468
        era == z \div 146097
        doe == z - era * 146097
        yoe == (doe - doe \div 1460 + doe \div 36524 - doe \div 146096) \div 365
        doy == doe - (365 * yoe + yoe \div 4 - yoe \div 100)
        mp  == (5 * doy + 2) \div 153
        m   == IF mp < 10 THEN mp + 3 ELSE mp - 9
        y   == yoe + era * 400
    IN  <<IF m <= 2 THEN y + 1 ELSE y, m>>

dt_year(t) == CivilFromInstant(t)[1]

dt_month(t) == CivilFromInstant(t)[2]

Stamp(y, mo, d, h, mi, s, off) ==
    [year |-> y, month |-> mo, day |-> d, hour |-> h, minute |-> mi,
     second |-> s, utcoffset |-> off]

\* the string '2019-01-01' of line 21, compared as a UTC instant
CutoffOld == to_datetime(Stamp(2019, 1, 1, 0, 0, 0, 0))

\* the string '2000-01-01' of line 22, compared as a UTC instant
CutoffNew == to_datetime(Stamp(2000, 1, 1, 0, 0, 0, 0))

----------------------------------------------------------------------------
(* The region table and the classifier *)

Box(n, la0, la1, lo0, lo1) ==
    [name |-> n, lat_min |-> la0, lat_max |-> la1, lon_min |-> lo0, lon_max |-> lo1]

\* the dict of lines 28-41, in its insertion order
regions ==
    << Box("Hokkaido",         410, 455, 1390, 1460),
       Box("Tohoku",           365, 415, 1390, 1420),
       Box("Kanto",            340, 370, 1380, 1410),
       Box("Chubu",            340, 385, 1360, 1390),
       Box("Kansai",           335, 360, 1340, 1370),
       Box("Chugoku",          335, 365, 1305, 1340),
       Box("Shikoku",          325, 345, 1320, 1350),
       Box("Kyushu & Okinawa", 235, 340, 1235, 1320),
       Box("North East Shore", 420, 500, 1455, 1555),
       Box("North West Shore", 375, 430, 1300, 1390),
       Box("East Shore",       350, 420, 1410, 1500),
       Box("South East Shore", 200, 350, 1350, 1500) >>

\* a <= b on floats: false when either side is NaN
Le(a, b) == ~IsNaN(a) /\ ~IsNaN(b) /\ a <= b

\* a < b on floats: false when either side is NaN
Lt(a, b) == ~IsNaN(a) /\ ~IsNaN(b) /\ a < b

\* the loop of lines 44-47 from the k-th region on; r is the row, a function
\* from its column names.  row['latitude'] is read first, row['longitude']
\* only when the latitude test passed (and short-circuits); reading a
\* column the row lacks raises KeyError.
RECURSIVE assign_region_from(_, _)
assign_region_from(r, k) ==
    IF k > Len(regions) THEN "Other"
    ELSE LET bounds == regions[k] IN
         IF "latitude" \notin DOMAIN r THEN "KeyError"
         ELSE IF Le(bounds.lat_min, r["latitude"]) /\ Le(r["latitude"], bounds.lat_max)
              THEN IF "longitude" \notin DOMAIN r THEN "KeyError"
                   ELSE IF Le(bounds.lon_min, r["longitude"])
                           /\ Le(r["longitude"], bounds.lon_max)
                        THEN bounds.name
                        ELSE assign_region_from(r, k + 1)
              ELSE assign_region_from(r, k + 1)

\* the search with the last matching region winning
RECURSIVE assign_region_last_from(_, _, _)
assign_region_last_from(r, k, found) ==
    IF k > Len(regions) THEN found
    ELSE LET bounds == regions[k] IN
         IF /\ Le(bounds.lat_min, r["latitude"]) /\ Le(r["latitude"], bounds.lat_max)
            /\ Le(bounds.lon_min, r["longitude"]) /\ Le(r["longitude"], bounds.lon_max)
         THEN assign_region_last_from(r, k + 1, bounds.name)
         ELSE assign_region_last_from(r, k + 1, found)

assign_region_last_match(r) == assign_region_last_from(r, 1, "Other")

\* the search with the upper bounds exclusive
RECURSIVE assign_region_half_open_from(_, _)
assign_region_half_open_from(r, k) ==
    IF k > Len(regions) THEN "Other"
    ELSE LET bounds == regions[k] IN
         IF /\ Le(bounds.lat_min, r["latitude"]) /\ Lt(r["latitude"], bounds.lat_max)
            /\ Le(bounds.lon_min, r["longitude"]) /\ Lt(r["longitude"], bounds.lon_max)
         THEN bounds.name
         ELSE assign_region_half_open_from(r, k + 1)

assign_region_half_open(r) == assign_region_half_open_from(r, 1)

\* the search without line 47: a row no box contains gets no label
assign_region_no_default(r) ==
    IF assign_region_from(r, 1) = "Other" THEN "" ELSE assign_region_from(r, 1)

assign_region(r) == assign_region_from(r, 1)

----------------------------------------------------------------------------
(* Frames: columns, and rows that keep the index label read_csv gave them *)

\* the 'time' strings the sources are drawn from
Timestamps ==
    { Stamp(1999, 12, 31, 23, 59, 59, 0),
      Stamp(2000,  1,  1,  0,  0,  0, 0),
      Stamp(2018, 12, 31, 23, 59, 59, 0),
      Stamp(2019,  1,  1,  0,  0,  0, 0),
      Stamp(2019,  1,  1,  9,  0,  0, 9) }

\* the other cells of a source row
Payloads ==
    { [latitude |-> 370, longitude |-> 1395, depth |-> 10, mag |-> 50],
      [latitude |-> 0,   longitude |-> 0,    depth |-> 30, mag |-> 65] }

Cells(t, p, cols) ==
    [c \in cols |-> CASE c = "time"      -> t
                      [] c = "latitude"  -> p.latitude
                      [] c = "longitude" -> p.longitude
                      [] c = "depth"     -> p.depth
                      [] c = "mag"       -> p.mag]

\* every file of n rows with the columns cols
read_csv(cols, n) ==
    { [columns |-> cols,
       rows    |-> [i \in 1..n |-> [index |-> i - 1, cells |-> s[i]]]] :
      s \in [1..n -> { Cells(t, p, cols) : t \in Timestamps, p \in Payloads }] }

Column(frame, c) == [i \in Positions(frame.rows) |-> frame.rows[i].cells[c]]

\* frame[c] = values, for a column the frame may or may not have yet
SetColumn(frame, c, values) ==
    [columns |-> frame.columns \cup {c},
     rows    |-> [i \in Positions(frame.rows) |->
                    [index |-> frame.rows[i].index,
                     cells |-> [d \in frame.columns \cup {c} |->
                                  IF d = c THEN values[i]
                                  ELSE frame.rows[i].cells[d]]]]]

\* the old window with its cutoff included
FilterOld_inclusive(frame) ==
    [frame EXCEPT !.rows = SelectSeq(@, LAMBDA r : r.cells["time"] <= CutoffOld)]

\* frame[frame['time'] < '2019-01-01']
FilterOld(frame) ==
    [frame EXCEPT !.rows = SelectSeq(@, LAMBDA r : r.cells["time"] < CutoffOld)]

\* frame[frame['time'] >= '2000-01-01']
FilterNew(frame) ==
    [frame EXCEPT !.rows = SelectSeq(@, LAMBDA r : r.cells["time"] >= CutoffNew)]

\* the concatenation with b's rows first
concat_swapped(a, b) ==
    LET cols == a.columns \cup b.columns
        Reindex(r) == [index |-> r.index,
                       cells |-> [c \in cols |-> IF c \in DOMAIN r.cells
                                                 THEN r.cells[c] ELSE NaN]]
    IN  [columns |-> cols,
         rows    |-> [i \in 1..Len(b.rows) |-> Reindex(b.rows[i])]
                     \o [i \in 1..Len(a.rows) |-> Reindex(a.rows[i])]]

\* pd.concat([a, b]): the union of the columns, a's rows then b's, each row
\* keeping its index label and getting NaN in the columns its frame lacks
concat(a, b) ==
    LET cols == a.columns \cup b.columns
        Reindex(r) == [index |-> r.index,
                       cells |-> [c \in cols |-> IF c \in DOMAIN r.cells
                                                 THEN r.cells[c] ELSE NaN]]
    IN  [columns |-> cols,
         rows    |-> [i \in 1..Len(a.rows) |-> Reindex(a.rows[i])]
                     \o [i \in 1..Len(b.rows) |-> Reindex(b.rows[i])]]

\* the rows whose 'time' is not among seen nor at an earlier kept row
RECURSIVE FirstOccurrences(_, _)
FirstOccurrences(rows, seen) ==
    IF rows = <<>> THEN <<>>
    ELSE LET t == Head(rows).cells["time"] IN
         IF t \in seen THEN FirstOccurrences(Tail(rows), seen)
         ELSE <<Head(rows)>> \o FirstOccurrences(Tail(rows), seen \cup {t})

\* only a run of equal 'time' values is reduced to its first row
RECURSIVE FirstOfRuns(_)
FirstOfRuns(rows) ==
    IF Len(rows) <= 1 THEN rows
    ELSE IF rows[1].cells["time"] = rows[2].cells["time"]
         THEN FirstOfRuns(<<rows[1]>> \o Tail(Tail(rows)))
         ELSE <<rows[1]>> \o FirstOfRuns(Tail(rows))

drop_duplicates_adjacent(frame) ==
    [frame EXCEPT !.rows = FirstOfRuns(@)]

\* keep='last': the rows whose 'time' no later row has
RECURSIVE LastOccurrences(_)
LastOccurrences(rows) ==
    IF rows = <<>> THEN <<>>
    ELSE IF \E j \in 2..Len(rows) : rows[j].cells["time"] = rows[1].cells["time"]
         THEN LastOccurrences(Tail(rows))
         ELSE <<rows[1]>> \o LastOccurrences(Tail(rows))

drop_duplicates_keep_last(frame) ==
    [frame EXCEPT !.rows = LastOccurrences(@)]

\* frame.drop_duplicates(subset=['time']).copy(), keep='first' by default
drop_duplicates(frame) ==
    [frame EXCEPT !.rows = FirstOccurrences(@, {})]

----------------------------------------------------------------------------
(* Python's min, max and float arithmetic; the groupings *)

\* min(s) of a non-empty list: the first element no later one is < than
RECURSIVE PyMinFrom(_, _, _)
PyMinFrom(s, i, cur) ==
    IF i > Len(s) THEN cur
    ELSE PyMinFrom(s, i + 1, IF Lt(s[i], cur) THEN s[i] ELSE cur)

PyMin(s) == PyMinFrom(s, 2, s[1])

\* max(s) of a non-empty list: the first element no later one is > than
RECURSIVE PyMaxFrom(_, _, _)
PyMaxFrom(s, i, cur) ==
    IF i > Len(s) THEN cur
    ELSE PyMaxFrom(s, i + 1, IF Lt(cur, s[i]) THEN s[i] ELSE cur)

PyMax(s) == PyMaxFrom(s, 2, s[1])

\* a - b on floats
FSub(a, b) == IF IsNaN(a) \/ IsNaN(b) THEN NaN ELSE a - b

\* a / b on floats, b not zero: the exact quotient num/den, 0/0 standing for nan
FDiv(a, b) ==
    IF IsNaN(a) \/ IsNaN(b) THEN [num |-> 0, den |-> 0] ELSE [num |-> a, den |-> b]

\* the values of s in ascending order
RECURSIVE Sorted(_)
Sorted(S) ==
    IF S = {} THEN <<>>
    ELSE LET lo == CHOOSE x \in S : \A y \in S : x <= y
         IN  <<lo>> \o Sorted(S \ {lo})

Keys(frame, c) == { frame.rows[i].cells[c] : i \in Positions(frame.rows) }

\* frame.groupby(c).size()
GroupSize(frame, c) ==
    [k \in Keys(frame, c) |->
        Cardinality({ i \in Positions(frame.rows) : frame.rows[i].cells[c] = k })]

\* frame.groupby(c)['mag'].mean(): the mean of the group's numbers, nan if none
GroupMean(frame, c) ==
    [k \in Keys(frame, c) |->
        LET members == { i \in Positions(frame.rows) :
                           /\ frame.rows[i].cells[c] = k
                           /\ ~IsNaN(frame.rows[i].cells["mag"]) }
        IN  [num |-> Sum([i \in members |-> frame.rows[i].cells["mag"]], members),
             den |-> Cardinality(members)]]

\* time.mktime(datetime(year, 1, 1).timetuple()), the local time zone being
\* UTC.  The script scales it to milliseconds; the model keeps the seconds,
\* which order the same way and stay within 32-bit integers.
YearStart(year) == DaysFromCivil(year, 1, 1) * 86400

----------------------------------------------------------------------------
(* The script, statement by statement *)

Running(at) == pc = at /\ error = "none"

\* line 17
ToDatetimeOld ==
    /\ Running("to_datetime_old")
    /\ IF "time" \in data_japan_2001_2018.columns
       THEN /\ data_japan_2001_2018' =
                 SetColumn(data_japan_2001_2018, "time",
                           [i \in Positions(data_japan_2001_2018.rows) |->
                              to_datetime(data_japan_2001_2018.rows[i].cells["time"])])
            /\ pc' = "to_datetime_new"
            /\ UNCHANGED error
       ELSE /\ error' = "KeyError"
            /\ UNCHANGED <<pc, data_japan_2001_2018>>
    /\ UNCHANGED <<data_japan_2000_2023, data_japan_old_filtered,
                   data_japan_new_filtered, combined_data, cleaned_combined_data,
                   chart1_vars, lookup_values, aggregates, call_vars>>

\* line 18
ToDatetimeNew ==
    /\ Running("to_datetime_new")
    /\ IF "time" \in data_japan_2000_2023.columns
       THEN /\ data_japan_2000_2023' =
                 SetColumn(data_japan_2000_2023, "time",
                           [i \in Positions(data_japan_2000_2023.rows) |->
                              to_datetime(data_japan_2000_2023.rows[i].cells["time"])])
            /\ pc' = "filter_old"
            /\ UNCHANGED error
       ELSE /\ error' = "KeyError"
            /\ UNCHANGED <<pc, data_japan_2000_2023>>
    /\ UNCHANGED <<data_japan_2001_2018, data_japan_old_filtered,
                   data_japan_new_filtered, combined_data, cleaned_combined_data,
                   chart1_vars, lookup_values, aggregates, call_vars>>

\* line 21
FilterOldStep ==
    /\ Running("filter_old")
    /\ data_japan_old_filtered' = FilterOld(data_japan_2001_2018)
    /\ pc' = "filter_new"
    /\ UNCHANGED <<error, data_japan_2001_2018, data_japan_2000_2023,
                   data_japan_new_filtered, combined_data, cleaned_combined_data,
                   chart1_vars, lookup_values, aggregates, call_vars>>

\* line 22
FilterNewStep ==
    /\ Running("filter_new")
    /\ data_japan_new_filtered' = FilterNew(data_japan_2000_2023)
    /\ pc' = "concat"
    /\ UNCHANGED <<error, data_japan_2001_2018, data_japan_2000_2023,
                   data_japan_old_filtered, combined_data, cleaned_combined_data,
                   chart1_vars, lookup_values, aggregates, call_vars>>

\* line 23
Concat ==
    /\ Running("concat")
    /\ combined_data' = concat(data_japan_old_filtered, data_japan_new_filtered)
    /\ pc' = "drop_duplicates"
    /\ UNCHANGED <<error, data_japan_2001_2018, data_japan_2000_2023,
                   data_japan_old_filtered, data_japan_new_filtered,
                   cleaned_combined_data, chart1_vars, lookup_values, aggregates,
                   call_vars>>

\* line 26
DropDuplicates ==
    /\ Running("drop_duplicates")
    /\ cleaned_combined_data' = drop_duplicates(combined_data)
    /\ pc' = "assign_regions"
    /\ UNCHANGED <<error, frames, chart1_vars, lookup_values, aggregates, call_vars>>

\* line 50: apply calls assign_region on each row in order (on none when the
\* frame has no rows), and the first KeyError ends the run
AssignRegions ==
    /\ Running("assign_regions")
    /\ LET rows   == cleaned_combined_data.rows
           labels == [i \in Positions(rows) |-> assign_region(rows[i].cells)]
       IN  IF \A i \in Positions(rows) : labels[i] # "KeyError"
           THEN /\ cleaned_combined_data' =
                     SetColumn(cleaned_combined_data, "region", labels)
                /\ pc' = "year"
                /\ UNCHANGED error
           ELSE /\ error' = "KeyError"
                /\ UNCHANGED <<pc, cleaned_combined_data>>
    /\ UNCHANGED <<frames, chart1_vars, lookup_values, aggregates, call_vars>>

\* lines 52-55: 'time' is already a datetime column, 'year' is added
Year ==
    /\ Running("year")
    /\ cleaned_combined_data' =
         SetColumn(cleaned_combined_data, "year",
                   [i \in Positions(cleaned_combined_data.rows) |->
                      dt_year(cleaned_combined_data.rows[i].cells["time"])])
    /\ pc' = "chart1_lists"
    /\ UNCHANGED <<error, frames, chart1_vars, lookup_values, aggregates, call_vars>>

\* lines 65-68: the four columns are read in this order
Chart1Lists ==
    /\ Running("chart1_lists")
    /\ IF {"longitude", "latitude", "depth", "mag"} \subseteq cleaned_combined_data.columns
       THEN /\ magnitude_values' = Column(cleaned_combined_data, "mag")
            /\ pc' = "chart1_minmax"
            /\ UNCHANGED error
       ELSE /\ error' = "KeyError"
            /\ UNCHANGED <<pc, magnitude_values>>
    /\ UNCHANGED <<frames, cleaned_combined_data, min_mag, max_mag, lookup_values,
                   aggregates, call_vars>>

\* lines 69-70: min() of an empty list raises ValueError
Chart1MinMax ==
    /\ Running("chart1_minmax")
    /\ IF magnitude_values # <<>>
       THEN /\ min_mag' = PyMin(magnitude_values)
            /\ max_mag' = PyMax(magnitude_values)
            /\ pc' = "chart1_lookup"
            /\ UNCHANGED error
       ELSE /\ error' = "ValueError"
            /\ UNCHANGED <<pc, min_mag, max_mag>>
    /\ UNCHANGED <<frames, cleaned_combined_data, magnitude_values, lookup_values,
                   aggregates, call_vars>>

\* line 71: a float division by 0.0 raises ZeroDivisionError
Chart1Lookup ==
    /\ Running("chart1_lookup")
    /\ IF FSub(max_mag, min_mag) # 0
       THEN /\ lookup_values' =
                 [i \in Positions(magnitude_values) |->
                    FDiv(FSub(magnitude_values[i], min_mag), FSub(max_mag, min_mag))]
            /\ pc' = "chart2"
            /\ UNCHANGED error
       ELSE /\ error' = "ZeroDivisionError"
            /\ UNCHANGED <<pc, lookup_values>>
    /\ UNCHANGED <<frames, cleaned_combined_data, chart1_vars, aggregates, call_vars>>

\* lines 100-102
Chart2 ==
    /\ Running("chart2")
    /\ LET with_month ==
             SetColumn(cleaned_combined_data, "month",
                       [i \in Positions(cleaned_combined_data.rows) |->
                          dt_month(cleaned_combined_data.rows[i].cells["time"])])
       IN  /\ cleaned_combined_data' = with_month
           /\ monthly_event_counts' = GroupSize(with_month, "month")
    /\ pc' = "chart3"
    /\ UNCHANGED <<error, frames, chart1_vars, lookup_values, monthly_avg_magnitude,
                   region_event_counts, event_counts_per_year, xValues6,
                   year_region_event_counts, x_values7, call_vars>>

\* lines 111-112
Chart3 ==
    /\ Running("chart3")
    /\ monthly_avg_magnitude' = GroupMean(cleaned_combined_data, "month")
    /\ pc' = "chart4"
    /\ UNCHANGED <<error, frames, cleaned_combined_data, chart1_vars, lookup_values,
                   monthly_event_counts, region_event_counts, event_counts_per_year,
                   xValues6, year_region_event_counts, x_values7, call_vars>>

\* lines 121-137: lookup_values is rebound to the magnitudes themselves; its
\* min and max are taken of a list that has elements here
Chart4 ==
    /\ Running("chart4")
    /\ lookup_values' = Column(cleaned_combined_data, "mag")
    /\ pc' = "chart5"
    /\ UNCHANGED <<error, frames, cleaned_combined_data, chart1_vars, aggregates,
                   call_vars>>

\* lines 150-151
Chart5 ==
    /\ Running("chart5")
    /\ region_event_counts' = GroupSize(cleaned_combined_data, "region")
    /\ pc' = "chart6"
    /\ UNCHANGED <<error, frames, cleaned_combined_data, chart1_vars, lookup_values,
                   monthly_event_counts, monthly_avg_magnitude, event_counts_per_year,
                   xValues6, year_region_event_counts, x_values7, call_vars>>

\* lines 159-167: min() of an empty xValues6 raises ValueError
Chart6 ==
    /\ Running("chart6")
    /\ LET counts == GroupSize(cleaned_combined_data, "year")
           years  == Sorted(DOMAIN counts)
           xs     == [i \in Positions(years) |-> YearStart(years[i])]
       IN  /\ event_counts_per_year' = counts
           /\ xValues6' = xs
           /\ IF xs # <<>>
              THEN pc' = "chart7" /\ UNCHANGED error
              ELSE error' = "ValueError" /\ UNCHANGED pc
    /\ UNCHANGED <<frames, cleaned_combined_data, chart1_vars, lookup_values,
                   monthly_event_counts, monthly_avg_magnitude, region_event_counts,
                   year_region_event_counts, x_values7, call_vars>>

\* lines 183-194: x_values7 is bound in the loop over the region columns, so
\* with no column line 192 raises NameError
Chart7 ==
    /\ Running("chart7")
    /\ LET years  == Keys(cleaned_combined_data, "year")
           labels == Keys(cleaned_combined_data, "region")
           rows   == cleaned_combined_data.rows
           table  == [y \in years |-> [l \in labels |->
                        Cardinality({ i \in Positions(rows) :
                                        /\ rows[i].cells["year"] = y
                                        /\ rows[i].cells["region"] = l })]]
           order  == Sorted(years)
       IN  /\ year_region_event_counts' = table
           /\ IF labels # {}
              THEN /\ x_values7' = [i \in Positions(order) |-> YearStart(order[i])]
                   /\ pc' = "open"
                   /\ UNCHANGED error
              ELSE /\ error' = "NameError"
                   /\ UNCHANGED <<pc, x_values7>>
    /\ UNCHANGED <<frames, cleaned_combined_data, chart1_vars, lookup_values,
                   monthly_event_counts, monthly_avg_magnitude, region_event_counts,
                   event_counts_per_year, xValues6, call_vars>>

\* line 199
Open ==
    /\ Running("open")
    /\ pc' = "done"
    /\ UNCHANGED <<error, frames, cleaned_combined_data, chart1_vars, lookup_values,
                   aggregates, call_vars>>

----------------------------------------------------------------------------
(* A call of assign_region on one row *)

LatMin == PyMin([k \in Positions(regions) |-> regions[k].lat_min])
LatMax == PyMax([k \in Positions(regions) |-> regions[k].lat_max])
LonMin == PyMin([k \in Positions(regions) |-> regions[k].lon_min])
LonMax == PyMax([k \in Positions(regions) |-> regions[k].lon_max])

\* the rows the call is made on: every point of the table's hull and Margin
\* around it, and rows with a NaN coordinate
Points ==
    { [latitude |-> la, longitude |-> lo] :
        la \in (LatMin - Margin)..(LatMax + Margin) \cup {NaN},
        lo \in (LonMin - Margin)..(LonMax + Margin) \cup {NaN} }

CallAssignRegion ==
    /\ Running("call")
    /\ region' = assign_region(row)
    /\ pc' = "returned"
    /\ UNCHANGED <<error, frames, cleaned_combined_data, chart1_vars, lookup_values,
                   aggregates, row>>

----------------------------------------------------------------------------
(* Specifications *)

Unbound ==
    /\ data_japan_old_filtered = NoFrame
    /\ data_japan_new_filtered = NoFrame
    /\ combined_data = NoFrame
    /\ cleaned_combined_data = NoFrame
    /\ magnitude_values = <<>>
    /\ min_mag = NaN
    /\ max_mag = NaN
    /\ lookup_values = <<>>
    /\ monthly_event_counts = <<>>
    /\ monthly_avg_magnitude = <<>>
    /\ region_event_counts = <<>>
    /\ event_counts_per_year = <<>>
    /\ xValues6 = <<>>
    /\ year_region_event_counts = <<>>
    /\ x_values7 = <<>>

\* after lines 13-14, both files carrying every required column
Init ==
    /\ pc = "to_datetime_old"
    /\ error = "none"
    /\ \E n \in 0..MaxRows, m \in 0..MaxRows :
         /\ n + m <= MaxRows
         /\ data_japan_2001_2018 \in read_csv(RequiredColumns, n)
         /\ data_japan_2000_2023 \in read_csv(RequiredColumns, m)
    /\ Unbound
    /\ row = <<>>
    /\ region = ""

Schemas == { RequiredColumns \ S : S \in { {} } \cup { {c} : c \in RequiredColumns } }

\* after lines 13-14, a file lacking one of the required columns
InitMissingColumn ==
    /\ pc = "to_datetime_old"
    /\ error = "none"
    /\ \E n \in 0..MaxRowsMissing, m \in 0..MaxRowsMissing, ca \in Schemas, cb \in Schemas :
         /\ n + m <= MaxRowsMissing
         /\ ca # RequiredColumns \/ cb # RequiredColumns
         /\ data_japan_2001_2018 \in read_csv(ca, n)
         /\ data_japan_2000_2023 \in read_csv(cb, m)
    /\ Unbound
    /\ row = <<>>
    /\ region = ""

\* before a call of assign_region
InitCall ==
    /\ pc = "call"
    /\ error = "none"
    /\ data_japan_2001_2018 = NoFrame
    /\ data_japan_2000_2023 = NoFrame
    /\ Unbound
    /\ row \in Points
    /\ region = ""

Next ==
    \/ ToDatetimeOld
    \/ ToDatetimeNew
    \/ FilterOldStep
    \/ FilterNewStep
    \/ Concat
    \/ DropDuplicates
    \/ AssignRegions
    \/ Year
    \/ Chart1Lists
    \/ Chart1MinMax
    \/ Chart1Lookup
    \/ Chart2
    \/ Chart3
    \/ Chart4
    \/ Chart5
    \/ Chart6
    \/ Chart7
    \/ Open

NextCall == CallAssignRegion

Spec == Init /\ [][Next]_vars

SpecMissingColumn == InitMissingColumn /\ [][Next]_vars

SpecCall == InitCall /\ [][NextCall]_vars

----------------------------------------------------------------------------
(* Vocabulary of the properties *)

Program ==
    << "to_datetime_old", "to_datetime_new", "filter_old", "filter_new", "concat",
       "drop_duplicates", "assign_regions", "year", "chart1_lists", "chart1_minmax",
       "chart1_lookup", "chart2", "chart3", "chart4", "chart5", "chart6", "chart7",
       "open", "done" >>

At(label) == CHOOSE k \in Positions(Program) : Program[k] = label

\* the statement named label has run to its end
Past(label) == pc \in { Program[k] : k \in Positions(Program) } /\ At(pc) > At(label)

Range(s) == { s[i] : i \in Positions(s) }

TimeOf(r) == r.cells["time"]

\* a row as its source gave it: its index label and its five cells
Original(r) == [index |-> r.index, cells |-> [c \in RequiredColumns |-> r.cells[c]]]

\* the rows of source A inside A's window, of source B inside B's, in file order
EligibleOld == SelectSeq(data_japan_2001_2018.rows, LAMBDA r : TimeOf(r) < CutoffOld)
EligibleNew == SelectSeq(data_japan_2000_2023.rows, LAMBDA r : TimeOf(r) >= CutoffNew)

\* the first row of s with the time t
FirstAt(s, t) == s[CHOOSE i \in Positions(s) :
                     /\ TimeOf(s[i]) = t
                     /\ \A j \in 1..(i - 1) : TimeOf(s[j]) # t]

\* the rows of the canonical sequence with the time t, as their source gave them
KeptAt(t) ==
    LET kept == SelectSeq(cleaned_combined_data.rows, LAMBDA r : TimeOf(r) = t)
    IN  [i \in Positions(kept) |-> Original(kept[i])]

RECURSIVE IsSubsequence(_, _)
IsSubsequence(s, t) ==
    IF s = <<>> THEN TRUE
    ELSE IF t = <<>> THEN FALSE
    ELSE IF Head(s) = Head(t) THEN IsSubsequence(Tail(s), Tail(t))
    ELSE IsSubsequence(s, Tail(t))

Contains(b, r) ==
    /\ Le(b.lat_min, r["latitude"]) /\ Le(r["latitude"], b.lat_max)
    /\ Le(b.lon_min, r["longitude"]) /\ Le(r["longitude"], b.lon_max)

OnBoundary(b, r) ==
    \/ r["latitude"] = b.lat_min \/ r["latitude"] = b.lat_max
    \/ r["longitude"] = b.lon_min \/ r["longitude"] = b.lon_max

RegionNames == { regions[k].name : k \in Positions(regions) }

----------------------------------------------------------------------------
(* Properties *)

\* C1: after the merge and deduplication no two distinct rows of the
\* canonical event sequence have the same 'time'.
C1_TimeUnique ==
    Past("drop_duplicates") =>
        \A i, j \in Positions(cleaned_combined_data.rows) :
            i # j => TimeOf(cleaned_combined_data.rows[i])
                       # TimeOf(cleaned_combined_data.rows[j])

\* C1 witness: deduplication removed a row and left at least two.
C1_Witness ==
    /\ Past("drop_duplicates")
    /\ Len(cleaned_combined_data.rows) >= 2
    /\ Len(cleaned_combined_data.rows) < Len(combined_data.rows)

\* C2: of the rows sharing a 'time', the one kept is the first in
\* concatenation order: source A's earliest row inside A's window when there
\* is one (B's rows with that time are dropped), else source B's earliest row
\* inside B's window.
C2_KeepsFirst ==
    Past("drop_duplicates") =>
        /\ \A t \in { TimeOf(r) : r \in Range(EligibleOld) } :
               KeptAt(t) = <<FirstAt(EligibleOld, t)>>
        /\ \A t \in { TimeOf(r) : r \in Range(EligibleNew) }
                      \ { TimeOf(r) : r \in Range(EligibleOld) } :
               KeptAt(t) = <<FirstAt(EligibleNew, t)>>

\* C2 witness: two rows of A and one of B share a time inside both windows,
\* the three differing from one another, and the merge has run.
C2_Witness ==
    /\ Past("drop_duplicates")
    /\ \E i, j \in Positions(EligibleOld), k \in Positions(EligibleNew) :
          /\ i < j
          /\ TimeOf(EligibleOld[i]) = TimeOf(EligibleOld[j])
          /\ TimeOf(EligibleOld[i]) = TimeOf(EligibleNew[k])
          /\ EligibleOld[i].cells # EligibleOld[j].cells
          /\ EligibleOld[i].cells # EligibleNew[k].cells

\* C5: a row of A at exactly 2019-01-01T00:00:00Z is never in A's filtered
\* set, whose rows are all before it; a row of B at exactly
\* 2000-01-01T00:00:00Z is always in B's filtered set; and every row of the
\* canonical sequence is a row of A before 2019-01-01 or a row of B on or
\* after 2000-01-01.
C5_CutoffPartition ==
    /\ Past("filter_old") =>
          /\ \A r \in Range(data_japan_2001_2018.rows) :
                TimeOf(r) = CutoffOld => r \notin Range(data_japan_old_filtered.rows)
          /\ \A r \in Range(data_japan_old_filtered.rows) : TimeOf(r) < CutoffOld
    /\ Past("filter_new") =>
          \A r \in Range(data_japan_2000_2023.rows) :
             TimeOf(r) = CutoffNew => r \in Range(data_japan_new_filtered.rows)
    /\ Past("drop_duplicates") =>
          \A r \in Range(cleaned_combined_data.rows) :
             \/ Original(r) \in Range(data_japan_2001_2018.rows) /\ TimeOf(r) < CutoffOld
             \/ Original(r) \in Range(data_japan_2000_2023.rows) /\ TimeOf(r) >= CutoffNew

\* C5 witness: A has a row at exactly its cutoff, B a row at exactly its
\* cutoff, and the merge has run.
C5_Witness ==
    /\ Past("drop_duplicates")
    /\ \E r \in Range(data_japan_2001_2018.rows) : TimeOf(r) = CutoffOld
    /\ \E r \in Range(data_japan_2000_2023.rows) : TimeOf(r) = CutoffNew
    /\ cleaned_combined_data.rows # <<>>

\* C9: the times of the canonical sequence are exactly the times of A's rows
\* before 2019-01-01 and of B's rows on or after 2000-01-01, and the kept
\* rows appear in concatenation order (A's window, then B's).
C9_MergeComplete ==
    Past("drop_duplicates") =>
        /\ { TimeOf(r) : r \in Range(cleaned_combined_data.rows) }
             = { TimeOf(r) : r \in Range(EligibleOld) }
                 \cup { TimeOf(r) : r \in Range(EligibleNew) }
        /\ IsSubsequence([i \in Positions(cleaned_combined_data.rows) |->
                            Original(cleaned_combined_data.rows[i])],
                         EligibleOld \o EligibleNew)

\* C9 witness: A has a row before 2000-01-01, B a row on or after 2019-01-01,
\* both are kept, and a duplicate was dropped.
C9_Witness ==
    /\ Past("drop_duplicates")
    /\ \E r \in Range(cleaned_combined_data.rows) : TimeOf(r) < CutoffNew
    /\ \E r \in Range(cleaned_combined_data.rows) : TimeOf(r) >= CutoffOld
    /\ Len(cleaned_combined_data.rows) < Len(combined_data.rows)

\* the positions of the regions whose box contains the row's point
Matches(r) == { k \in Positions(regions) : Contains(regions[k], r) }

\* the earliest of a non-empty set of positions
Earliest(S) == CHOOSE k \in S : \A j \in S : k <= j

\* C3: assign_region returns the first region, in the table's order, whose
\* latitude and longitude intervals both contain the point ("Other" when
\* there is none); the point lat 37, lon 139.5, inside both Tohoku and Kanto,
\* gets the earlier-listed Tohoku.
C3_FirstMatch ==
    pc = "returned" =>
        /\ Matches(row) # {} => region = regions[Earliest(Matches(row))].name
        /\ Matches(row) = {} => region = "Other"
        /\ row = [latitude |-> 370, longitude |-> 1395] => region = "Tohoku"

\* C3 witness: the call on lat 37, lon 139.5, a point of two boxes, returned.
C3_Witness ==
    /\ pc = "returned"
    /\ row = [latitude |-> 370, longitude |-> 1395]
    /\ Cardinality(Matches(row)) = 2
    /\ region = "Tohoku"

\* C4: the classifier step does not fail, and after it every event of the
\* canonical sequence has a region that is non-empty and is one of the
\* twelve names or "Other", "Other" exactly when no box contains the event.
C4_ClassificationTotal ==
    /\ pc = "assign_regions" => error = "none"
    /\ Past("assign_regions") =>
          \A r \in Range(cleaned_combined_data.rows) :
             /\ "region" \in DOMAIN r.cells
             /\ r.cells["region"] # ""
             /\ r.cells["region"] \in RegionNames \cup {"Other"}
             /\ r.cells["region"] = "Other" <=> Matches(r.cells) = {}

\* C4 witness: the classifier step has run on a sequence holding an event
\* inside a box and an event inside none.
C4_Witness ==
    /\ Past("assign_regions")
    /\ \E r \in Range(cleaned_combined_data.rows) : r.cells["region"] = "Other"
    /\ \E r \in Range(cleaned_combined_data.rows) : r.cells["region"] \in RegionNames

\* C6 as stated: a point within a region's box and exactly at one of its
\* four bounds is classified into that region.
C6_BoundaryIntoRegion ==
    pc = "returned" =>
        \A k \in Positions(regions) :
            (Contains(regions[k], row) /\ OnBoundary(regions[k], row))
                => region = regions[k].name

\* C6 amended: a point within a region's box and exactly at one of its four
\* bounds is classified into that region when no earlier-listed region's box
\* contains the point too.
C6_BoundaryInclusive ==
    pc = "returned" =>
        \A k \in Positions(regions) :
            (/\ Contains(regions[k], row)
             /\ OnBoundary(regions[k], row)
             /\ \A j \in 1..(k - 1) : ~Contains(regions[j], row))
                => region = regions[k].name

\* C6 witness: the call returned for a point on the upper latitude bound and
\* the upper longitude bound of a region other than the first, which no
\* earlier region contains.
C6_Witness ==
    /\ pc = "returned"
    /\ \E k \in 2..Len(regions) :
          /\ row["latitude"] = regions[k].lat_max
          /\ row["longitude"] = regions[k].lon_max
          /\ \A j \in 1..(k - 1) : ~Contains(regions[j], row)
          /\ region = regions[k].name

\* C7: with an empty canonical sequence no stage after the merge raises.
C7_EmptyTolerated ==
    (Past("drop_duplicates") /\ cleaned_combined_data.rows = <<>>) => error = "none"

\* C8: when a source lacks a required column the run aborts before any
\* processing step: it never gets past its first statement.
C8_AbortBeforeProcessing ==
    (\/ data_japan_2001_2018.columns # RequiredColumns
     \/ data_japan_2000_2023.columns # RequiredColumns)
        => pc = "to_datetime_old"

\* C10: for a non-empty canonical sequence the divisor max_mag - min_mag of
\* line 71 is not zero, and every lookup value lies between 0 and 1, 0 at
\* the minimum magnitude and 1 at the maximum.
C10_LookupWellDefined ==
    /\ pc = "chart1_lookup" => FSub(max_mag, min_mag) # 0
    /\ pc = "chart2" =>
          \A i \in Positions(lookup_values) :
             /\ lookup_values[i].den > 0
             /\ 0 <= lookup_values[i].num
             /\ lookup_values[i].num <= lookup_values[i].den
             /\ magnitude_values[i] = min_mag => lookup_values[i].num = 0
             /\ magnitude_values[i] = max_mag
                   => lookup_values[i].num = lookup_values[i].den

====
